---- MODULE Spec2Model ----
(***************************************************************************)
(* Product description paraphraser: the validator (utils/validation.ts),   *)
(* the paraphrase service with its prompts and similarity check            *)
(* (services/paraphrase.service.ts), the error classifier and client       *)
(* singleton (utils/openai-client.ts), the configuration singleton         *)
(* (config/index.ts) and the interactive loop (index.ts, cli.ts).          *)
(*                                                                         *)
(* Strings are sequences of one-character strings.  Error messages are     *)
(* sequences of message fragments; String.includes(sig) on a message is    *)
(* "some fragment is sig".                                                 *)
(***************************************************************************)
EXTENDS Integers, Sequences, FiniteSets, TLC

VARIABLES
    arg,            \* argument handed to the function under test
    fn,             \* which exported function was applied to arg ("none" before)
    ret,            \* what that function returned or threw
    pc,             \* position of the process (service call or interactive session)
    lines,          \* promptForDescription: lines[] collected so far
    emptyLineCount, \* promptForDescription: consecutive empty lines
    prompted,       \* promptForDescription: the joined text and what validation made of it
    request,        \* the ParaphraseRequest of the current call
    sent,           \* completion requests issued to the client in the current call/iteration
    answer,         \* what settled the awaited completion call (completion or error)
    raised,         \* the error thrown inside paraphrase's try block, if any
    outcome,        \* how the paraphrase call ended (response or thrown error)
    caught,         \* the error caught by the interactive loop's catch clause
    continueRunning,\* runInteractiveCLI: loop flag
    iter,           \* number of loop iterations started
    shown,          \* what the current iteration printed (history of the iteration)
    exitCode,       \* process exit status, -1 while running
    env,            \* process.env: the variables envSchema reads
    configInstance, \* config module: the cached AppConfig, NoConfig while null
    parses,         \* number of envSchema.parse(process.env) runs so far
    openaiClient,   \* openai-client module: the cached client, NoClient while null
    calls,          \* paraphrase calls on the shared service instance, by call id
    issued,         \* chat.completions.create calls received by the shared client
    serviceInstance,\* paraphrase.service module: the cached service, NoService while null
    constructed,    \* how many OpenAI clients and ParaphraseService objects were constructed
    typed           \* promptForDescription: the lines entered in the running call

vars == <<arg, fn, ret, pc, lines, emptyLineCount, prompted, request, sent, answer, raised, outcome,
          caught, continueRunning, iter, shown, exitCode, env, configInstance, parses,
          openaiClient, calls, issued, serviceInstance, constructed, typed>>

pureVars == <<arg, fn, ret>>
callVars == <<request, sent, answer, raised, outcome>>
loopVars == <<lines, emptyLineCount, prompted, caught, continueRunning, iter, shown, exitCode,
              typed>>
moduleVars == <<env, configInstance, parses, openaiClient, serviceInstance, constructed>>
concVars == <<calls, issued>>

----------------------------------------------------------------------------
(* Bounds of the model *)

\* longest prefix drawn from PadChars in the short test strings
MaxPad == 3
\* number of non-empty lines the user may type in one prompt
MaxLines == 2
\* number of loop iterations explored
MaxIter == 2
\* number of times the environment is parsed
MaxParses == 2
\* number of words in a drawn text
MaxWords == 3
\* number of paraphrase calls made on the shared service instance
MaxCalls == 2
\* number of OpenAI clients, and of ParaphraseService objects, constructed
MaxObjects == 2

----------------------------------------------------------------------------
(* Strings *)

Rep(c, n) == [i \in 1..n |-> c]

IsWhitespace(c) == c \in {" ", "\n"}

RECURSIVE TrimStart(_)
TrimStart(s) ==
    IF s # <<>> /\ IsWhitespace(Head(s)) THEN TrimStart(Tail(s)) ELSE s

RECURSIVE TrimEnd(_)
TrimEnd(s) ==
    IF s # <<>> /\ IsWhitespace(s[Len(s)]) THEN TrimEnd(SubSeq(s, 1, Len(s) - 1)) ELSE s

\* String.prototype.trim
Trim(s) == TrimEnd(TrimStart(s))

\* lines.join('\n')
RECURSIVE Join(_)
Join(ls) ==
    IF ls = <<>> THEN <<>>
    ELSE IF Len(ls) = 1 THEN ls[1]
    ELSE ls[1] \o <<"\n">> \o Join(Tail(ls))

\* message.includes(sig) on a message made of fragments
Includes(message, sig) == \E i \in 1..Len(message) : message[i] = sig

----------------------------------------------------------------------------
(* Errors *)

ErrorType == {"API_KEY_ERROR", "NETWORK_ERROR", "API_ERROR", "VALIDATION_ERROR",
              "RATE_LIMIT_ERROR", "UNKNOWN_ERROR"}

NoError == [kind |-> "none"]

\* new AppError(type, message, details)
AppError(type, message, details) ==
    [kind |-> "AppError", type |-> type, message |-> message, details |-> details]

IsAppError(e) == e.kind = "AppError"

\* instanceof Error: AppError, OpenAI.APIError, ZodError and plain Error all extend Error
IsError(e) == e.kind \in {"AppError", "APIError", "Error", "ZodError"}

Return(v) == [ok |-> TRUE, value |-> v]
Throw(e) == [ok |-> FALSE, error |-> e]
NoResult == Throw(NoError)

NotPrompted == [done |-> FALSE, description |-> <<>>, result |-> NoResult]

----------------------------------------------------------------------------
(* config/index.ts, utils/openai-client.ts: the module-level singletons *)

\* value of an environment variable that is not set (process.env.X === undefined)
Unset == "(unset)"

\* the variables of process.env that are drawn: credential, model name, log level
\* ("verbose" is none of the levels the schema accepts)
Environments ==
    [OPENAI_API_KEY : {Unset, "", "sk-test"},
     OPENAI_MODEL : {Unset, "gpt-4o"},
     LOG_LEVEL : {Unset, "verbose"}]

LogLevels == {"error", "warn", "info", "debug"}

\* envSchema.parse(e): z.object collects the issues of all its keys, in key order;
\* a missing key without default is "Required", .default fills a missing key in
envSchema(e) ==
    LET keyIssue ==
            IF e.OPENAI_API_KEY = Unset
            THEN <<[path |-> "OPENAI_API_KEY", message |-> "Required"]>>
            ELSE IF e.OPENAI_API_KEY = ""
            THEN <<[path |-> "OPENAI_API_KEY", message |-> "OpenAI API key is required"]>>
            ELSE <<>>
        levelIssue ==
            IF e.LOG_LEVEL # Unset /\ e.LOG_LEVEL \notin LogLevels
            THEN <<[path |-> "LOG_LEVEL", message |-> "Invalid enum value"]>>
            ELSE <<>>
    IN  [issues |-> keyIssue \o levelIssue,
         value |-> [OPENAI_API_KEY |-> e.OPENAI_API_KEY,
                    OPENAI_MODEL |-> IF e.OPENAI_MODEL = Unset THEN "gpt-5-nano"
                                     ELSE e.OPENAI_MODEL,
                    LOG_LEVEL |-> IF e.LOG_LEVEL = Unset THEN "info" ELSE e.LOG_LEVEL]]

\* issues.map(issue => `${path}: ${message}`).join(', ') as message fragments
RECURSIVE IssueList(_)
IssueList(issues) ==
    IF issues = <<>> THEN <<>>
    ELSE <<issues[1].path, ": ", issues[1].message>>
             \o (IF Len(issues) > 1 THEN <<", ">> ELSE <<>>)
             \o IssueList(Tail(issues))

\* slip: only the first issue is reported (issues[0] instead of the map)
validateEnv_FirstIssueOnly(e) ==
    LET parsed == envSchema(e)
    IN  IF parsed.issues # <<>>
        THEN Throw(AppError("VALIDATION_ERROR",
                            <<"Environment validation failed: ">>
                                \o IssueList(<<parsed.issues[1]>>),
                            [kind |-> "ZodError", issues |-> parsed.issues]))
        ELSE Return(parsed.value)

\* slip: the schema is applied but its issues are not raised
validateEnv_IgnoresIssues(e) == Return(envSchema(e).value)

validateEnv(e) ==
    LET parsed == envSchema(e)
    IN  IF parsed.issues # <<>>
        THEN Throw(AppError("VALIDATION_ERROR",
                            <<"Environment validation failed: ">> \o IssueList(parsed.issues),
                            [kind |-> "ZodError", issues |-> parsed.issues]))
        ELSE Return(parsed.value)

\* getConfig(): a fresh AppConfig object; id tells the objects apart (the number of
\* the parse that made it)
getConfig(e, id) ==
    LET validated == validateEnv(e)
    IN  IF ~validated.ok THEN validated
        ELSE Return([id |-> id,
                     logLevel |-> validated.value.LOG_LEVEL,
                     openai |-> [apiKey |-> validated.value.OPENAI_API_KEY,
                                 model |-> validated.value.OPENAI_MODEL]])

\* configInstance = null
NoConfig == [id |-> 0]

\* openaiClient = null
NoClient == [kind |-> "null"]

ClientKeyMessage ==
    <<"OpenAI API key is not configured. Please set OPENAI_API_KEY environment variable.">>

\* slip: config() calls getConfig() on every call
config_AlwaysLoads(instance, e, id) == getConfig(e, id)

\* config(): what it returns or throws when the cached instance is `instance`, the
\* environment is e and a parse, if one runs, is the id-th
config(instance, e, id) ==
    IF instance = NoConfig THEN getConfig(e, id) ELSE Return(instance)

\* serviceInstance = null
NoService == [kind |-> "null"]

\* createOpenAIClient() after its config() call ended as `loaded`; id tells the
\* constructed clients apart
createOpenAIClient(loaded, id) ==
    IF ~loaded.ok THEN loaded
    \* !appConfig.openai.apiKey
    ELSE IF loaded.value.openai.apiKey \in {"", Unset}
    THEN Throw(AppError("API_KEY_ERROR", ClientKeyMessage, NoError))
    ELSE Return([kind |-> "OpenAI", id |-> id, apiKey |-> loaded.value.openai.apiKey,
                 timeout |-> 30000, maxRetries |-> 3])

\* The module-level state as one record m, and the calls as functions from m to the
\* result of the call and the module state it leaves.
ModuleState ==
    [env |-> env, configInstance |-> configInstance, parses |-> parses,
     openaiClient |-> openaiClient, serviceInstance |-> serviceInstance,
     constructed |-> constructed]

SetModuleState(m) ==
    /\ env' = m.env
    /\ configInstance' = m.configInstance
    /\ parses' = m.parses
    /\ openaiClient' = m.openaiClient
    /\ serviceInstance' = m.serviceInstance
    /\ constructed' = m.constructed

\* the element of a one-element set; {f(x) : x \in {e}} computes e once and names
\* its value x
Only(S) == CHOOSE x \in S : TRUE

\* config() called in module state m
RunConfig(m) ==
    Only({[result |-> loaded,
           state |-> [m EXCEPT !.configInstance = IF loaded.ok THEN loaded.value ELSE @,
                               !.parses = IF m.configInstance = NoConfig THEN @ + 1 ELSE @]] :
          loaded \in {config(m.configInstance, m.env, m.parses + 1)}})

\* createOpenAIClient() called in module state m
RunCreateOpenAIClient(m) ==
    Only({Only({[result |-> created,
                 state |-> [c.state EXCEPT
                               !.constructed.clients = IF created.ok THEN @ + 1 ELSE @]] :
                created \in {createOpenAIClient(c.result, m.constructed.clients + 1)}}) :
          c \in {RunConfig(m)}})

\* slip: the client is created on every call
getOpenAIClient_AlwaysCreates(m) ==
    Only({[result |-> c.result,
           state |-> [c.state EXCEPT
                         !.openaiClient = IF c.result.ok THEN c.result.value ELSE @]] :
          c \in {RunCreateOpenAIClient(m)}})

\* getOpenAIClient() called in module state m
getOpenAIClient(m) ==
    IF m.openaiClient # NoClient THEN [result |-> Return(m.openaiClient), state |-> m]
    ELSE Only({[result |-> c.result,
                state |-> [c.state EXCEPT
                              !.openaiClient = IF c.result.ok THEN c.result.value ELSE @]] :
               c \in {RunCreateOpenAIClient(m)}})

\* new ParaphraseService() after its field initializers getOpenAIClient() and
\* config() ended as g and c
ParaphraseServiceObject(m, g, c) ==
    IF ~g.result.ok THEN g
    ELSE IF ~c.result.ok THEN c
    ELSE [result |-> Return([kind |-> "ParaphraseService",
                             id |-> m.constructed.services + 1,
                             openaiClient |-> g.result.value,
                             config |-> c.result.value]),
          state |-> [c.state EXCEPT !.constructed.services = @ + 1]]

\* new ParaphraseService() called in module state m
NewParaphraseService(m) ==
    Only({Only({ParaphraseServiceObject(m, g, c) : c \in {RunConfig(g.state)}}) :
          g \in {getOpenAIClient(m)}})

\* getParaphraseService() called in module state m
getParaphraseService(m) ==
    IF m.serviceInstance # NoService THEN [result |-> Return(m.serviceInstance), state |-> m]
    ELSE Only({[result |-> n.result,
                state |-> [n.state EXCEPT
                              !.serviceInstance = IF n.result.ok THEN n.result.value ELSE @]] :
               n \in {NewParaphraseService(m)}})

\* the counters stay inside the explored range
WithinBounds(m) ==
    /\ m.parses <= MaxParses
    /\ m.constructed.clients <= MaxObjects
    /\ m.constructed.services <= MaxObjects

----------------------------------------------------------------------------
(* utils/validation.ts *)

MAX_DESCRIPTION_LENGTH == 5000

MIN_DESCRIPTION_LENGTH == 10

TooShortMessage == "Description must be at least 10 characters"
TooLongMessage == "Description must be at most 5000 characters"

\* z.string().min(MIN).max(MAX).trim(): zod runs the checks of a string schema in
\* the order they were chained, each on the current data; min and max therefore see
\* the data as given and trim rewrites it afterwards.
descriptionSchema(data) ==
    LET minIssue == IF Len(data) < MIN_DESCRIPTION_LENGTH THEN <<TooShortMessage>> ELSE <<>>
        maxIssue == IF Len(data) > MAX_DESCRIPTION_LENGTH THEN <<TooLongMessage>> ELSE <<>>
    IN  [issues |-> minIssue \o maxIssue, value |-> Trim(data)]

validateDescription(description) ==
    LET parsed == descriptionSchema(description)
    IN  IF parsed.issues # <<>>
        THEN Throw(AppError("VALIDATION_ERROR",
                            <<"Invalid description: ", parsed.issues[1]>>,
                            [kind |-> "ZodError", issues |-> parsed.issues]))
        ELSE Return(parsed.value)

\* .replace(/[<>]/g, '')
RemoveAngleBrackets(input) == SelectSeq(input, LAMBDA c : c \notin {"<", ">"})

\* .replace(/\\n/g, '\n'): a backslash directly followed by n becomes one newline.
\* Matches cannot overlap, so every such pair is a match.
UnescapeNewlines(input) ==
    LET n == Len(input)
        marked == [i \in 1..n |->
                     IF input[i] = "\\" /\ i < n /\ input[i + 1] = "n" THEN "\n"
                     ELSE IF input[i] = "n" /\ i > 1 /\ input[i - 1] = "\\" THEN ""
                     ELSE input[i]]
    IN  SelectSeq(marked, LAMBDA c : c # "")

\* slip: the two replacements applied in the opposite order
sanitizeInput_UnescapeFirst(input) ==
    Trim(RemoveAngleBrackets(UnescapeNewlines(input)))

\* slip: trim is applied before the two replacements
sanitizeInput_TrimFirst(input) == UnescapeNewlines(RemoveAngleBrackets(Trim(input)))

sanitizeInput(input) == Trim(UnescapeNewlines(RemoveAngleBrackets(input)))

\* slip: the sanitized text is returned without validateDescription
Validator_SkipsValidation(description) == Return(sanitizeInput(description))

\* cli.ts promptForDescription, after the lines are read: sanitize, then validate
Validator(description) == validateDescription(sanitizeInput(description))

----------------------------------------------------------------------------
(* Test strings for the pure functions *)

PadChars == {" ", "\n", "<", ">", "\\", "n"}

Pads(k) == UNION {[1..m -> PadChars] : m \in 0..k}

ShortInputs ==
    {p \o Rep("a", n) \o q :
        p \in Pads(MaxPad), q \in Pads(1),
        n \in {0} \cup ((MIN_DESCRIPTION_LENGTH - 4)..(MIN_DESCRIPTION_LENGTH + 1))}

LongInputs ==
    {p \o Rep("a", n) \o q :
        p \in Pads(1), q \in Pads(1),
        n \in (MAX_DESCRIPTION_LENGTH - 3)..(MAX_DESCRIPTION_LENGTH + 1)}

Inputs == ShortInputs \cup LongInputs

----------------------------------------------------------------------------
(* Pure functions applied to drawn arguments *)

IdleCall == /\ request = [description |-> <<>>, targetLength |-> "none"]
            /\ sent = <<>>
            /\ answer = NoError
            /\ raised = NoError
            /\ outcome = NoResult

IdleModule == /\ env = [OPENAI_API_KEY |-> "sk-test", OPENAI_MODEL |-> Unset, LOG_LEVEL |-> Unset]
              /\ configInstance = NoConfig
              /\ parses = 0
              /\ openaiClient = NoClient
              /\ serviceInstance = NoService
              /\ constructed = [clients |-> 0, services |-> 0]

IdleCalls == /\ calls = <<>>
             /\ issued = <<>>

IdleLoop == /\ lines = <<>>
            /\ emptyLineCount = 0
            /\ prompted = NotPrompted
            /\ caught = NoError
            /\ continueRunning = TRUE
            /\ iter = 0
            /\ shown = <<>>
            /\ exitCode = -1
            /\ typed = <<>>

InitValidator ==
    /\ arg \in Inputs
    /\ fn = "none"
    /\ ret = NoResult
    /\ pc = "pure"
    /\ IdleCall
    /\ IdleLoop
    /\ IdleModule
    /\ IdleCalls

CallValidateDescription ==
    /\ pc = "pure" /\ fn = "none"
    /\ fn' = "validateDescription"
    /\ ret' = validateDescription(arg)
    /\ UNCHANGED <<moduleVars, concVars, arg, pc, callVars, loopVars>>

CallSanitizeInput ==
    /\ pc = "pure" /\ fn = "none"
    /\ fn' = "sanitizeInput"
    /\ ret' = Return(sanitizeInput(arg))
    /\ UNCHANGED <<moduleVars, concVars, arg, pc, callVars, loopVars>>

CallValidator ==
    /\ pc = "pure" /\ fn = "none"
    /\ fn' = "Validator"
    /\ ret' = Validator(arg)
    /\ UNCHANGED <<moduleVars, concVars, arg, pc, callVars, loopVars>>

NextValidator == CallValidateDescription \/ CallSanitizeInput \/ CallValidator

SpecValidator == InitValidator /\ [][NextValidator]_vars

----------------------------------------------------------------------------
(* utils/openai-client.ts: handleOpenAIError *)

ApiKeyMessage == <<"Invalid OpenAI API key. Please check your configuration.">>
RateLimitMessage == <<"OpenAI API rate limit exceeded. Please try again later.">>
NetworkMessage ==
    <<"Unable to connect to OpenAI API. Please check your internet connection.">>
UnknownMessage == <<"An unexpected error occurred while calling OpenAI API">>

\* slip: an error that is already an Error is rethrown as it is
handleOpenAIError_Rethrow(error) ==
    IF error.kind = "APIError"
    THEN IF error.status = 401 THEN AppError("API_KEY_ERROR", ApiKeyMessage, error)
         ELSE IF error.status = 429
              THEN AppError("RATE_LIMIT_ERROR", RateLimitMessage, error)
              ELSE AppError("API_ERROR", <<"OpenAI API error: ">> \o error.message, error)
    ELSE IF IsError(error) THEN error
    ELSE AppError("UNKNOWN_ERROR", UnknownMessage, error)

\* slip: the catch-all AppError is built without its third argument
handleOpenAIError_DropsCause(error) ==
    IF error.kind = "APIError"
    THEN IF error.status = 401 THEN AppError("API_KEY_ERROR", ApiKeyMessage, error)
         ELSE IF error.status = 429
              THEN AppError("RATE_LIMIT_ERROR", RateLimitMessage, error)
              ELSE AppError("API_ERROR", <<"OpenAI API error: ">> \o error.message, error)
    ELSE IF IsError(error)
            /\ (Includes(error.message, "ECONNREFUSED")
                \/ Includes(error.message, "ETIMEDOUT"))
    THEN AppError("NETWORK_ERROR", NetworkMessage, error)
    ELSE AppError("UNKNOWN_ERROR", UnknownMessage, NoError)

\* slip: the connection signatures are looked for before the status is
handleOpenAIError_SignatureFirst(error) ==
    IF IsError(error)
       /\ (Includes(error.message, "ECONNREFUSED") \/ Includes(error.message, "ETIMEDOUT"))
    THEN AppError("NETWORK_ERROR", NetworkMessage, error)
    ELSE IF error.kind = "APIError"
    THEN IF error.status = 401 THEN AppError("API_KEY_ERROR", ApiKeyMessage, error)
         ELSE IF error.status = 429
              THEN AppError("RATE_LIMIT_ERROR", RateLimitMessage, error)
              ELSE AppError("API_ERROR", <<"OpenAI API error: ">> \o error.message, error)
    ELSE AppError("UNKNOWN_ERROR", UnknownMessage, error)

\* slip: the API_ERROR throw is missing, other API errors fall through to the
\* signature test
handleOpenAIError_FallsThrough(error) ==
    IF error.kind = "APIError" /\ error.status = 401
    THEN AppError("API_KEY_ERROR", ApiKeyMessage, error)
    ELSE IF error.kind = "APIError" /\ error.status = 429
    THEN AppError("RATE_LIMIT_ERROR", RateLimitMessage, error)
    ELSE IF IsError(error)
            /\ (Includes(error.message, "ECONNREFUSED")
                \/ Includes(error.message, "ETIMEDOUT"))
    THEN AppError("NETWORK_ERROR", NetworkMessage, error)
    ELSE AppError("UNKNOWN_ERROR", UnknownMessage, error)

\* slip: an AppError passed in is thrown again as it is
handleOpenAIError_KeepsAppError(error) ==
    IF IsAppError(error) THEN error
    ELSE IF error.kind = "APIError"
    THEN IF error.status = 401 THEN AppError("API_KEY_ERROR", ApiKeyMessage, error)
         ELSE IF error.status = 429
              THEN AppError("RATE_LIMIT_ERROR", RateLimitMessage, error)
              ELSE AppError("API_ERROR", <<"OpenAI API error: ">> \o error.message, error)
    ELSE IF IsError(error)
            /\ (Includes(error.message, "ECONNREFUSED")
                \/ Includes(error.message, "ETIMEDOUT"))
    THEN AppError("NETWORK_ERROR", NetworkMessage, error)
    ELSE AppError("UNKNOWN_ERROR", UnknownMessage, error)

\* The AppError handleOpenAIError throws for `error` (it never returns).
handleOpenAIError(error) ==
    IF error.kind = "APIError"
    THEN IF error.status = 401 THEN AppError("API_KEY_ERROR", ApiKeyMessage, error)
         ELSE IF error.status = 429
              THEN AppError("RATE_LIMIT_ERROR", RateLimitMessage, error)
              ELSE AppError("API_ERROR", <<"OpenAI API error: ">> \o error.message, error)
    ELSE IF IsError(error)
            /\ (Includes(error.message, "ECONNREFUSED")
                \/ Includes(error.message, "ETIMEDOUT"))
    THEN AppError("NETWORK_ERROR", NetworkMessage, error)
    ELSE AppError("UNKNOWN_ERROR", UnknownMessage, error)

----------------------------------------------------------------------------
(* services/paraphrase.service.ts *)

SystemPrompt ==
    <<"Rewrite the product description in simple, clear language. Make it shorter. ",
      "IMPORTANT: Do NOT add any information, features, or details that are not explicitly mentioned in the original description. ",
      "Only simplify what is already there.">>

generateSystemPrompt == SystemPrompt

\* slip: the description is trimmed on its way into the prompt
generateUserPrompt_Trimmed(description) == Trim(description)

generateUserPrompt(description) == description

\* the messages array paraphrase builds for a request
buildMessages(req) ==
    <<[role |-> "system", content |-> generateSystemPrompt],
      [role |-> "user", content |-> generateUserPrompt(req.description)]>>

\* config().openai.model with OPENAI_MODEL unset
ConfiguredModel == "gpt-5-nano"

\* the argument of openaiClient.chat.completions.create
CompletionRequest(req) ==
    [model |-> ConfiguredModel,
     messages |-> buildMessages(req),
     n |-> 1]

----------------------------------------------------------------------------
(* services/paraphrase.service.ts (version with the target length): the prompts *)

BasePrompt ==
    <<"You are a helpful assistant that rewrites product descriptions. ",
      "Use simple, clear language that anyone can understand. ",
      "Keep the meaning and all important details, but use different words and sentence structures. ">>

ShortClause == "Make the paraphrase concise and shorter than the original. "
LongClause == "Expand the description with more details and context. "
MediumClause == "Keep the paraphrase approximately the same length as the original. "

ClosingSentence ==
    "The paraphrase should be easy to read and understand while being completely different from the original text."

\* generateSystemPrompt(targetLength); "none" is undefined, for which the
\* `if (targetLength)` block is skipped
generateSystemPromptForLength(targetLength) ==
    BasePrompt
    \o (IF targetLength # "none"
        THEN CASE targetLength = "short" -> <<ShortClause>>
               [] targetLength = "long" -> <<LongClause>>
               [] OTHER -> <<MediumClause>>
        ELSE <<>>)
    \o <<ClosingSentence>>

UserPromptLabel == "Please paraphrase the following product description:\n\n"

\* generateUserPrompt(description) of this version: the label, then the description
generateUserPromptLabelled(description) == <<UserPromptLabel>> \o description

buildMessagesForLength(req) ==
    <<[role |-> "system", content |-> generateSystemPromptForLength(req.targetLength)],
      [role |-> "user", content |-> generateUserPromptLabelled(req.description)]>>

NoContentError == [kind |-> "Error", message |-> <<"No paraphrase generated from the API">>]

\* slip: the content is used without trim()
ParaphrasedText_NoTrim(completion) ==
    IF completion.choices = <<>> \/ ~completion.choices[1].present THEN <<>>
    ELSE completion.choices[1].text

\* slip: only the end of the content is trimmed (trimEnd instead of trim)
ParaphrasedText_TrimEndOnly(completion) ==
    IF completion.choices = <<>> \/ ~completion.choices[1].present THEN <<>>
    ELSE TrimEnd(completion.choices[1].text)

\* completion.choices[0]?.message?.content?.trim(); undefined is shown as the
\* empty string, both are falsy in the test that follows
ParaphrasedText(completion) ==
    IF completion.choices = <<>> \/ ~completion.choices[1].present THEN <<>>
    ELSE Trim(completion.choices[1].text)

\* slip: a falsy token count is dropped (usage.total_tokens || undefined)
TokensUsed_ZeroAbsent(completion) ==
    IF completion.usage.present /\ completion.usage.total_tokens # 0
    THEN [present |-> TRUE, value |-> completion.usage.total_tokens]
    ELSE [present |-> FALSE, value |-> 0]

\* completion.usage?.total_tokens
TokensUsed(completion) ==
    IF completion.usage.present
    THEN [present |-> TRUE, value |-> completion.usage.total_tokens]
    ELSE [present |-> FALSE, value |-> 0]

\* what the try block of paraphrase throws after `upstream` settled the await,
\* NoError when it runs to its return statement
ThrownInTry(upstream) ==
    IF upstream.kind # "completion" THEN upstream
    ELSE IF ParaphrasedText(upstream) = <<>> THEN NoContentError
    ELSE NoError

\* paraphrase from the settled await to its end: the response, or the catch clause
ParaphraseOutcome(req, upstream) ==
    IF ThrownInTry(upstream) # NoError
    THEN Throw(handleOpenAIError(ThrownInTry(upstream)))
    ELSE Return([original |-> req.description,
                 paraphrased |-> ParaphrasedText(upstream),
                 tokensUsed |-> TokensUsed(upstream)])

----------------------------------------------------------------------------
(* What the completion endpoint may answer *)

Contents == {<<>>, <<" ", "\n">>, <<"o", "k">>, <<" ", "o", "k", "\n">>,
             Rep("a", MIN_DESCRIPTION_LENGTH)}

Choice(text) == [present |-> TRUE, text |-> text]
NullChoice == [present |-> FALSE, text |-> <<>>]

ChoiceLists ==
    {<<>>, <<NullChoice>>}
    \cup {<<Choice(t)>> : t \in Contents}
    \cup {<<Choice(t), Choice(<<"n", "o">>)>> : t \in {<<" ", "\n">>, <<" ", "o", "k", "\n">>}}
    \cup {<<NullChoice, Choice(<<"n", "o">>)>>}

Usages == {[present |-> FALSE, total_tokens |-> 0],
           [present |-> TRUE, total_tokens |-> 0],
           [present |-> TRUE, total_tokens |-> 89]}

Completions ==
    {[kind |-> "completion", choices |-> c, usage |-> u] : c \in ChoiceLists, u \in Usages}

Messages == {<<"boom">>, <<"connect ", "ECONNREFUSED">>, <<"ETIMEDOUT">>}

\* status 0 stands for an APIError without a status (a connection error of the client)
APIErrors ==
    {[kind |-> "APIError", status |-> st, message |-> m] :
        st \in {0, 401, 429, 500}, m \in Messages}

PlainErrors == {[kind |-> "Error", message |-> m] : m \in Messages}

\* throw of a value that is no Error
ThrownValues == {[kind |-> "value"]}

UpstreamErrors == APIErrors \cup PlainErrors \cup ThrownValues

----------------------------------------------------------------------------
(* handleOpenAIError applied to drawn values *)

ClassifierMessages == Messages \cup {<<>>, <<"Invalid OpenAI API key">>}

\* status 0 stands for an APIError without a status
ClassifierStatuses == {0, 400, 401, 403, 404, 429, 500, 503}

\* the values of type unknown handed to handleOpenAIError: API errors, plain
\* errors, AppErrors of every type, a ZodError, and values that are no Error
ClassifierInputs ==
    {[kind |-> "APIError", status |-> st, message |-> m] :
        st \in ClassifierStatuses, m \in ClassifierMessages}
    \cup {[kind |-> "Error", message |-> m] : m \in ClassifierMessages}
    \cup {AppError(t, m, NoError) : t \in ErrorType, m \in ClassifierMessages}
    \cup {[kind |-> "ZodError", message |-> <<"Required">>]}
    \cup {[kind |-> k] : k \in {"value", "undefined", "null"}}

InitClassifier ==
    /\ arg \in ClassifierInputs
    /\ fn = "none"
    /\ ret = NoResult
    /\ pc = "classify"
    /\ IdleCall
    /\ IdleLoop
    /\ IdleModule
    /\ IdleCalls

CallHandleOpenAIError ==
    /\ pc = "classify" /\ fn = "none"
    /\ fn' = "handleOpenAIError"
    /\ ret' = Throw(handleOpenAIError(arg))
    /\ UNCHANGED <<moduleVars, concVars, arg, pc, callVars, loopVars>>

NextClassifier == CallHandleOpenAIError

SpecClassifier == InitClassifier /\ [][NextClassifier]_vars

----------------------------------------------------------------------------
(* The service called directly *)

TargetLengths == {"none", "short", "medium", "long"}

Descriptions ==
    {<<>>,
     Rep("a", MIN_DESCRIPTION_LENGTH - 1),
     Rep("a", MIN_DESCRIPTION_LENGTH),
     <<" ">> \o Rep("a", MIN_DESCRIPTION_LENGTH - 2) \o <<" ">>,
     <<" ", "<">> \o Rep("a", MIN_DESCRIPTION_LENGTH) \o <<"\n">>,
     Rep("a", MAX_DESCRIPTION_LENGTH + 1)}

Requests == [description : Descriptions, targetLength : TargetLengths]

InitService ==
    /\ arg = <<>> /\ fn = "none" /\ ret = NoResult
    /\ pc = "idle"
    /\ IdleCall
    /\ IdleLoop
    /\ IdleModule
    /\ IdleCalls

\* variant: paraphrase validates the description before it calls the client
Paraphrase_ValidateFirst(req) ==
    /\ pc = "idle"
    /\ request' = req
    /\ IF Validator(req.description).ok
       THEN /\ sent' = Append(sent, CompletionRequest(req))
            /\ pc' = "awaiting"
            /\ UNCHANGED outcome
       ELSE /\ outcome' = Validator(req.description)
            /\ pc' = "threw"
            /\ UNCHANGED sent
    /\ UNCHANGED <<moduleVars, concVars, pureVars, answer, raised, loopVars>>

\* paraphrase(request) up to its await: the completion request goes out
Paraphrase(req) ==
    /\ pc = "idle"
    /\ request' = req
    /\ sent' = Append(sent, CompletionRequest(req))
    /\ pc' = "awaiting"
    /\ UNCHANGED <<moduleVars, concVars, pureVars, answer, raised, outcome, loopVars>>

\* paraphrase after its await settled with `upstream`
FinishParaphrase(upstream) ==
    /\ answer' = upstream
    /\ raised' = ThrownInTry(upstream)
    /\ outcome' = ParaphraseOutcome(request, upstream)

\* the await settles (resolved with a completion or rejected with an error) and
\* paraphrase runs to its end
Settle(upstream) ==
    /\ pc = "awaiting"
    /\ FinishParaphrase(upstream)
    /\ pc' = IF outcome'.ok THEN "returned" ELSE "threw"
    /\ UNCHANGED <<moduleVars, concVars, pureVars, request, sent, loopVars>>

NextService ==
    \/ \E req \in Requests : Paraphrase(req)
    \/ \E c \in Completions : Settle(c)
    \/ \E e \in UpstreamErrors : Settle(e)

SpecService == InitService /\ [][NextService]_vars

----------------------------------------------------------------------------
(* Several paraphrase calls in flight on the instance getParaphraseService returns *)

SharedRequests ==
    {[description |-> d, targetLength |-> "none"] :
        d \in {Rep("a", MIN_DESCRIPTION_LENGTH - 1),
               Rep("a", MIN_DESCRIPTION_LENGTH),
               <<" ">> \o Rep("a", MIN_DESCRIPTION_LENGTH - 2) \o <<" ">>}}

SharedAnswers ==
    {[kind |-> "completion", choices |-> <<Choice(<<" ", "o", "k", "\n">>)>>,
      usage |-> [present |-> TRUE, total_tokens |-> 89]],
     [kind |-> "completion", choices |-> <<Choice(Rep("a", MIN_DESCRIPTION_LENGTH))>>,
      usage |-> [present |-> FALSE, total_tokens |-> 0]],
     [kind |-> "completion", choices |-> <<>>,
      usage |-> [present |-> TRUE, total_tokens |-> 0]],
     [kind |-> "APIError", status |-> 429, message |-> <<"boom">>],
     [kind |-> "Error", message |-> <<"connect ", "ECONNREFUSED">>]}

\* the service instance exists, no call has been made
InitConcurrent ==
    /\ arg = <<>> /\ fn = "none" /\ ret = NoResult
    /\ pc = "shared"
    /\ IdleCall
    /\ IdleLoop
    /\ IdleModule
    /\ calls = <<>>
    /\ issued = <<>>

\* how many calls have ended
Settled == Cardinality({c \in 1..Len(calls) : calls[c].pc # "awaiting"})

\* a caller invokes paraphrase(req): the call runs up to its await, its completion
\* request is with the client
StartCall(req) ==
    /\ pc = "shared"
    /\ Len(calls) < MaxCalls
    /\ calls' = Append(calls, [request |-> req, pc |-> "awaiting", answer |-> NoError,
                               raised |-> NoError, outcome |-> NoResult, order |-> 0])
    /\ issued' = Append(issued, [call |-> Len(calls) + 1, request |-> CompletionRequest(req)])
    /\ UNCHANGED <<pureVars, pc, callVars, loopVars, moduleVars>>

\* variant: the request is kept in a field of the service, which every new call
\* overwrites
SettleCall_SharedRequest(c, upstream) ==
    /\ pc = "shared"
    /\ c \in 1..Len(calls)
    /\ calls[c].pc = "awaiting"
    /\ calls' = [calls EXCEPT ![c] =
                    [request |-> @.request,
                     pc |-> IF ParaphraseOutcome(calls[Len(calls)].request, upstream).ok
                            THEN "returned" ELSE "threw",
                     answer |-> upstream,
                     raised |-> ThrownInTry(upstream),
                     outcome |-> ParaphraseOutcome(calls[Len(calls)].request, upstream),
                     order |-> Settled + 1]]
    /\ UNCHANGED <<pureVars, pc, callVars, loopVars, moduleVars, issued>>

\* variant: a call whose request was rate-limited sends it again
SettleCall_RetryOnRateLimit(c, upstream) ==
    /\ pc = "shared"
    /\ c \in 1..Len(calls)
    /\ calls[c].pc = "awaiting"
    /\ IF upstream.kind = "APIError" /\ upstream.status = 429 /\ Len(issued) < 2 * MaxCalls
       THEN /\ issued' = Append(issued, [call |-> c,
                                         request |-> CompletionRequest(calls[c].request)])
            /\ UNCHANGED calls
       ELSE /\ calls' = [calls EXCEPT ![c] =
                            [request |-> @.request,
                             pc |-> IF ParaphraseOutcome(@.request, upstream).ok
                                    THEN "returned" ELSE "threw",
                             answer |-> upstream,
                             raised |-> ThrownInTry(upstream),
                             outcome |-> ParaphraseOutcome(@.request, upstream),
                             order |-> Settled + 1]]
            /\ UNCHANGED issued
    /\ UNCHANGED <<pureVars, pc, callVars, loopVars, moduleVars>>

\* the await of call c settles with `upstream` and the call runs to its end; the
\* request and the completion are locals of the call
SettleCall(c, upstream) ==
    /\ pc = "shared"
    /\ c \in 1..Len(calls)
    /\ calls[c].pc = "awaiting"
    /\ calls' = [calls EXCEPT ![c] =
                    [request |-> @.request,
                     pc |-> IF ParaphraseOutcome(@.request, upstream).ok
                            THEN "returned" ELSE "threw",
                     answer |-> upstream,
                     raised |-> ThrownInTry(upstream),
                     outcome |-> ParaphraseOutcome(@.request, upstream),
                     order |-> Settled + 1]]
    /\ UNCHANGED <<pureVars, pc, callVars, loopVars, moduleVars, issued>>

NextConcurrent ==
    \/ \E req \in SharedRequests : StartCall(req)
    \/ \E c \in 1..MaxCalls, upstream \in SharedAnswers : SettleCall(c, upstream)

SpecConcurrent == InitConcurrent /\ [][NextConcurrent]_vars

----------------------------------------------------------------------------
(* The prompt builders of both versions applied to drawn pairs of requests *)

InitPrompt ==
    /\ arg \in Requests \X Requests
    /\ fn = "none"
    /\ ret = NoResult
    /\ pc = "pure"
    /\ IdleCall
    /\ IdleLoop
    /\ IdleModule
    /\ IdleCalls

CallBuildMessages ==
    /\ pc = "pure" /\ fn = "none"
    /\ fn' = "buildMessages"
    /\ ret' = Return(<<buildMessages(arg[1]), buildMessages(arg[2])>>)
    /\ UNCHANGED <<moduleVars, concVars, arg, pc, callVars, loopVars>>

CallBuildMessagesForLength ==
    /\ pc = "pure" /\ fn = "none"
    /\ fn' = "buildMessagesForLength"
    /\ ret' = Return(<<buildMessagesForLength(arg[1]), buildMessagesForLength(arg[2])>>)
    /\ UNCHANGED <<moduleVars, concVars, arg, pc, callVars, loopVars>>

NextPrompt == CallBuildMessages \/ CallBuildMessagesForLength

SpecPrompt == InitPrompt /\ [][NextPrompt]_vars

----------------------------------------------------------------------------
(* services/paraphrase.service.ts (version with the similarity check) *)

LowerCase == ("A" :> "a") @@ ("B" :> "b") @@ ("R" :> "r") @@ ("O" :> "o") @@ ("K" :> "k")

\* String.prototype.toLowerCase
toLowerCase(s) ==
    [i \in 1..Len(s) |-> IF s[i] \in DOMAIN LowerCase THEN LowerCase[s[i]] ELSE s[i]]

\* s.split(/\s+/): the pieces between maximal whitespace runs; leading or trailing
\* whitespace yields an empty first or last piece, and "" yields [""]
RECURSIVE SplitWhitespace(_)
SplitWhitespace(s) ==
    IF \A i \in 1..Len(s) : ~IsWhitespace(s[i]) THEN <<s>>
    ELSE LET i == CHOOSE x \in 1..Len(s) :
                      IsWhitespace(s[x]) /\ \A j \in 1..(x - 1) : ~IsWhitespace(s[j])
         IN  <<SubSeq(s, 1, i - 1)>>
                 \o SplitWhitespace(TrimStart(SubSeq(s, i + 1, Len(s))))

Larger(a, b) == IF a >= b THEN a ELSE b

\* slip: the paraphrase's words are filtered instead of the original's
commonWords_OfParaphrase(originalWords, paraphrasedWords) ==
    SelectSeq(paraphrasedWords,
              LAMBDA w : \E i \in 1..Len(originalWords) : originalWords[i] = w)

\* originalWords.filter((word) => paraphrasedWords.includes(word))
commonWords(originalWords, paraphrasedWords) ==
    SelectSeq(originalWords,
              LAMBDA w : \E i \in 1..Len(paraphrasedWords) : paraphrasedWords[i] = w)

\* similarity as the fraction common / longest
similarity(original, paraphrased) ==
    LET originalWords == SplitWhitespace(toLowerCase(original))
        paraphrasedWords == SplitWhitespace(toLowerCase(paraphrased))
    IN  [common |-> Len(commonWords(originalWords, paraphrasedWords)),
         longest |-> Larger(Len(originalWords), Len(paraphrasedWords))]

\* slip: any difference between the texts counts as significant
isSignificantlyDifferent_AnyDifference(original, paraphrased) ==
    toLowerCase(original) # toLowerCase(paraphrased)

isSignificantlyDifferent(original, paraphrased) ==
    IF toLowerCase(original) = toLowerCase(paraphrased) THEN FALSE
    \* similarity < 0.7
    ELSE 10 * similarity(original, paraphrased).common
             < 7 * similarity(original, paraphrased).longest

----------------------------------------------------------------------------
(* isSignificantlyDifferent applied to drawn pairs of texts *)

Words == {<<"a">>, <<"A">>, <<"b">>}

\* the words of ws separated by single spaces
RECURSIVE Sentence(_)
Sentence(ws) ==
    IF ws = <<>> THEN <<>>
    ELSE IF Len(ws) = 1 THEN ws[1]
    ELSE ws[1] \o <<" ">> \o Sentence(Tail(ws))

RedShirt == <<"A", " ", "r", "e", "d", " ", "s", "h", "i", "r", "t">>

RedLargeCottonShirt ==
    <<"A", " ", "r", "e", "d", " ", "l", "a", "r", "g", "e", " ",
      "c", "o", "t", "t", "o", "n", " ", "s", "h", "i", "r", "t">>

BlueDenimPants ==
    <<"B", "l", "u", "e", " ", "d", "e", "n", "i", "m", " ", "p", "a", "n", "t", "s">>

Texts ==
    {Sentence(ws) : ws \in UNION {[1..n -> Words] : n \in 0..MaxWords}}
    \cup {<<" ", "a">>, <<"a", " ", "\n", "b">>}
    \cup {RedShirt, RedLargeCottonShirt, BlueDenimPants}

TextPairs == Texts \X Texts

InitSimilarity ==
    /\ arg \in TextPairs
    /\ fn = "none"
    /\ ret = NoResult
    /\ pc = "pure"
    /\ IdleCall
    /\ IdleLoop
    /\ IdleModule
    /\ IdleCalls

CallIsSignificantlyDifferent ==
    /\ pc = "pure" /\ fn = "none"
    /\ fn' = "isSignificantlyDifferent"
    /\ ret' = Return(isSignificantlyDifferent(arg[1], arg[2]))
    /\ UNCHANGED <<moduleVars, concVars, arg, pc, callVars, loopVars>>

NextSimilarity == CallIsSignificantlyDifferent

SpecSimilarity == InitSimilarity /\ [][NextSimilarity]_vars

----------------------------------------------------------------------------
(* index.ts, cli.ts: the interactive session *)

\* what handleError prints for an error
handleError(error) ==
    IF IsAppError(error)
    THEN CASE error.type = "API_KEY_ERROR" -> <<"error: API key", "error: check OPENAI_API_KEY">>
           [] error.type = "RATE_LIMIT_ERROR" -> <<"error: rate limit">>
           [] error.type = "NETWORK_ERROR" -> <<"error: network">>
           [] error.type = "VALIDATION_ERROR" -> <<"error: validation">>
           [] OTHER -> <<"error: unexpected, try again">>
    ELSE <<"error: unexpected">>

\* slip: every AppError is taken to be fatal
isFatalError_AnyAppError(error) == IsAppError(error)

isFatalError(error) ==
    IF IsAppError(error) THEN error.type = "API_KEY_ERROR" ELSE FALSE

\* lines the user may type at the "> " prompt (the empty line ends the input)
TypedLines ==
    {<<>>,
     <<"h", "i">>,
     Rep("a", MIN_DESCRIPTION_LENGTH),
     <<"<">> \o Rep("a", MIN_DESCRIPTION_LENGTH - 1),
     Rep("a", MAX_DESCRIPTION_LENGTH + 1)}

\* readlineSync.question throws this when the terminal cannot be read
TtyError ==
    [kind |-> "Error",
     message |-> <<"The current environment doesn't support interactive reading from TTY.">>]

\* keyInSelect index -> targetLength (0 is "Skip")
lengthMap == <<"short", "medium", "long">>

\* the environments the program is started in (the model name is left to its default)
StartEnvironments == {e \in Environments : e.OPENAI_MODEL = Unset}

\* the process starts: nothing is imported yet
Init ==
    /\ arg = <<>> /\ fn = "none" /\ ret = NoResult
    /\ pc = "start"
    /\ IdleCall
    /\ env \in StartEnvironments
    /\ configInstance = NoConfig
    /\ parses = 0
    /\ openaiClient = NoClient
    /\ serviceInstance = NoService
    /\ constructed = [clients |-> 0, services |-> 0]
    /\ IdleCalls
    /\ lines = <<>>
    /\ emptyLineCount = 0
    /\ prompted = NotPrompted
    /\ caught = NoError
    /\ continueRunning = TRUE
    /\ iter = 0
    /\ shown = <<>>
    /\ exitCode = -1
    /\ typed = <<>>

\* the imports of index.ts are evaluated: the logger module calls createLogger(),
\* which calls config(); an error thrown there is uncaught and ends the process
LoadModules ==
    \E c \in {RunConfig(ModuleState)} :
        /\ pc = "start"
        /\ SetModuleState(c.state)
        /\ IF c.result.ok
           THEN /\ pc' = "main"
                /\ UNCHANGED <<shown, exitCode>>
           ELSE /\ pc' = "failed"
                /\ shown' = <<"uncaught">>
                /\ exitCode' = 1
        /\ UNCHANGED <<concVars, pureVars, callVars, lines, emptyLineCount, prompted, caught,
                       continueRunning, iter, typed>>

\* main(): new Application() initializes paraphraseService, run() calls config() and
\* runInteractiveCLI prints the header; an error of the constructor reaches
\* main().catch, an error of config() reaches the catch clause of run()
Main ==
    \E s \in {getParaphraseService(ModuleState)} : \E c \in {RunConfig(s.state)} :
        /\ pc = "main"
        /\ IF ~s.result.ok
           THEN /\ SetModuleState(s.state)
                /\ shown' = <<"unhandled">>
                /\ pc' = "failed"
                /\ exitCode' = 1
           ELSE /\ SetModuleState(c.state)
                /\ IF c.result.ok
                   THEN /\ shown' = <<"header">>
                        /\ pc' = "loop"
                        /\ UNCHANGED exitCode
                   ELSE /\ shown' = <<"fatal">>
                        /\ pc' = "failed"
                        /\ exitCode' = 1
        /\ UNCHANGED <<concVars, pureVars, callVars, lines, emptyLineCount, prompted, caught,
                       continueRunning, iter, typed>>

\* while (continueRunning): a new iteration starts and promptForDescription prints
\* its prompt
NextIteration ==
    /\ pc = "loop" /\ continueRunning
    /\ iter < MaxIter
    /\ iter' = iter + 1
    /\ lines' = <<>>
    /\ emptyLineCount' = 0
    /\ prompted' = NotPrompted
    /\ caught' = NoError
    /\ request' = [description |-> <<>>, targetLength |-> "none"]
    /\ sent' = <<>>
    /\ answer' = NoError
    /\ raised' = NoError
    /\ outcome' = NoResult
    /\ shown' = <<"prompt">>
    /\ typed' = <<>>
    /\ pc' = "promptForDescription"
    /\ UNCHANGED <<moduleVars, concVars, pureVars, continueRunning, exitCode>>

\* slip: a non-empty line does not reset the count of empty lines
ReadLine_NoReset(line) ==
    /\ pc = "promptForDescription"
    /\ line # <<>> => Len(lines) < MaxLines
    /\ typed' = Append(typed, line)
    /\ lines' = IF line = <<>> THEN lines ELSE Append(lines, line)
    /\ emptyLineCount' = IF line = <<>> THEN emptyLineCount + 1 ELSE emptyLineCount
    /\ IF emptyLineCount' < 2
       THEN UNCHANGED <<prompted, caught, shown, pc>>
       ELSE LET description == Join(lines')
                result == Validator(description)
            IN  /\ prompted' = [done |-> TRUE, description |-> description, result |-> result]
                /\ IF result.ok
                   THEN /\ pc' = "promptForTargetLength"
                        /\ UNCHANGED <<caught, shown>>
                   ELSE /\ shown' = Append(shown, "error: validation")
                        /\ caught' = result.error
                        /\ pc' = "catch"
    /\ UNCHANGED <<moduleVars, concVars, pureVars, callVars, continueRunning, iter, exitCode>>

\* promptForDescription: one readlineSync.question; after the second consecutive
\* empty line the text is joined, sanitized and validated
ReadLine(line) ==
    /\ pc = "promptForDescription"
    /\ line # <<>> => Len(lines) < MaxLines
    /\ typed' = Append(typed, line)
    /\ lines' = IF line = <<>> THEN lines ELSE Append(lines, line)
    /\ emptyLineCount' = IF line = <<>> THEN emptyLineCount + 1 ELSE 0
    /\ IF emptyLineCount' < 2
       THEN UNCHANGED <<prompted, caught, shown, pc>>
       ELSE LET description == Join(lines')
                result == Validator(description)
            IN  /\ prompted' = [done |-> TRUE, description |-> description, result |-> result]
                /\ IF result.ok
                   THEN /\ pc' = "promptForTargetLength"
                        /\ UNCHANGED <<caught, shown>>
                   ELSE /\ shown' = Append(shown, "error: validation")
                        /\ caught' = result.error
                        /\ pc' = "catch"
    /\ UNCHANGED <<moduleVars, concVars, pureVars, callVars, continueRunning, iter, exitCode>>

\* readlineSync.question fails
ReadLineFails ==
    /\ pc = "promptForDescription"
    /\ caught' = TtyError
    /\ pc' = "catch"
    /\ UNCHANGED <<moduleVars, concVars, pureVars, callVars, lines, emptyLineCount, prompted, continueRunning,
                   iter, shown, exitCode, typed>>

\* promptForTargetLength, the request is built, displayLoading, and paraphrase runs
\* up to its await
PromptForTargetLength(index) ==
    /\ pc = "promptForTargetLength"
    /\ request' = [description |-> prompted.result.value,
                   targetLength |-> IF index = 0 THEN "none" ELSE lengthMap[index]]
    /\ shown' = Append(shown, "loading")
    /\ sent' = Append(sent, CompletionRequest(request'))
    /\ pc' = "awaitParaphrase"
    /\ UNCHANGED <<moduleVars, concVars, pureVars, answer, raised, outcome, lines, emptyLineCount, prompted,
                   caught, continueRunning, iter, exitCode, typed>>

\* variant: a paraphrase that is too similar is refused like a failed call
AwaitParaphrase_RejectsSimilar(upstream) ==
    /\ pc = "awaitParaphrase"
    /\ FinishParaphrase(upstream)
    /\ IF outcome'.ok /\ isSignificantlyDifferent(outcome'.value.original,
                                                 outcome'.value.paraphrased)
       THEN /\ shown' = shown \o <<"result">>
            /\ pc' = "promptToContinue"
            /\ UNCHANGED caught
       ELSE /\ caught' = IF outcome'.ok
                         THEN AppError("VALIDATION_ERROR", <<"too similar">>, NoError)
                         ELSE outcome'.error
            /\ pc' = "catch"
            /\ UNCHANGED shown
    /\ UNCHANGED <<moduleVars, concVars, pureVars, request, sent, lines, emptyLineCount,
                   prompted, continueRunning, iter, exitCode, typed>>

\* the await in the loop settles: displayResult and the similarity warning, or the
\* AppError thrown by paraphrase is caught
AwaitParaphrase(upstream) ==
    /\ pc = "awaitParaphrase"
    /\ FinishParaphrase(upstream)
    /\ IF outcome'.ok
       THEN /\ shown' = shown \o <<"result">>
                   \o (IF outcome'.value.tokensUsed.present
                          /\ outcome'.value.tokensUsed.value # 0
                       THEN <<"tokens">> ELSE <<>>)
                   \o (IF ~isSignificantlyDifferent(outcome'.value.original,
                                                    outcome'.value.paraphrased)
                       THEN <<"error: too similar">> ELSE <<>>)
            /\ pc' = "promptToContinue"
            /\ UNCHANGED caught
       ELSE /\ caught' = outcome'.error
            /\ pc' = "catch"
            /\ UNCHANGED shown
    /\ UNCHANGED <<moduleVars, concVars, pureVars, request, sent, lines, emptyLineCount, prompted,
                   continueRunning, iter, exitCode, typed>>

\* continueRunning = promptToContinue(); on yes the screen is cleared
PromptToContinue(yes) ==
    /\ pc = "promptToContinue"
    /\ continueRunning' = yes
    /\ shown' = IF yes THEN <<"header">> ELSE shown
    /\ pc' = "loop"
    /\ UNCHANGED <<moduleVars, concVars, pureVars, callVars, lines, emptyLineCount, prompted, caught, iter,
                   exitCode, typed>>

\* slip: after a non-fatal error the user is asked whether to continue
CatchError_AsksToContinue ==
    /\ pc = "catch"
    /\ IF isFatalError(caught)
       THEN /\ shown' = shown \o handleError(caught) \o <<"fatal">>
            /\ pc' = "exited"
            /\ exitCode' = 1
       ELSE /\ shown' = shown \o handleError(caught)
            /\ pc' = "promptToContinue"
            /\ UNCHANGED exitCode
    /\ UNCHANGED <<moduleVars, concVars, pureVars, callVars, lines, emptyLineCount, prompted, caught,
                   continueRunning, iter, typed>>

\* slip: a fatal error leaves the loop like a declined continuation
CatchError_GoodbyeOnFatal ==
    /\ pc = "catch"
    /\ IF isFatalError(caught)
       THEN /\ shown' = shown \o handleError(caught) \o <<"goodbye">>
            /\ pc' = "done"
            /\ exitCode' = 0
       ELSE /\ shown' = shown \o handleError(caught)
            /\ pc' = "loop"
            /\ UNCHANGED exitCode
    /\ UNCHANGED <<moduleVars, concVars, pureVars, callVars, lines, emptyLineCount, prompted, caught,
                   continueRunning, iter, typed>>

\* the loop's catch clause: handleError, then rethrow when isFatalError; run()
\* catches the rethrown error, handleFatalError prints and process.exit(1)
CatchError ==
    /\ pc = "catch"
    /\ IF isFatalError(caught)
       THEN /\ shown' = shown \o handleError(caught) \o <<"fatal">>
            /\ pc' = "exited"
            /\ exitCode' = 1
       ELSE /\ shown' = shown \o handleError(caught)
            /\ pc' = "loop"
            /\ UNCHANGED exitCode
    /\ UNCHANGED <<moduleVars, concVars, pureVars, callVars, lines, emptyLineCount, prompted, caught,
                   continueRunning, iter, typed>>

\* the loop ends: displayGoodbye, run() returns
DisplayGoodbye ==
    /\ pc = "loop" /\ ~continueRunning
    /\ shown' = Append(shown, "goodbye")
    /\ pc' = "done"
    /\ exitCode' = 0
    /\ UNCHANGED <<moduleVars, concVars, pureVars, callVars, lines, emptyLineCount, prompted, caught,
                   continueRunning, iter, typed>>

Next ==
    \/ LoadModules
    \/ Main
    \/ NextIteration
    \/ \E line \in TypedLines : ReadLine(line)
    \/ ReadLineFails
    \/ \E index \in 0..3 : PromptForTargetLength(index)
    \/ \E c \in Completions : AwaitParaphrase(c)
    \/ \E e \in UpstreamErrors : AwaitParaphrase(e)
    \/ \E yes \in BOOLEAN : PromptToContinue(yes)
    \/ CatchError
    \/ DisplayGoodbye

Spec == Init /\ [][Next]_vars

----------------------------------------------------------------------------
(* The configuration and client singletons, called in any order while the       *)
(* environment changes                                                          *)

InitConfig ==
    /\ arg = <<>> /\ fn = "none" /\ ret = NoResult
    /\ pc = "module"
    /\ env \in Environments
    /\ configInstance = NoConfig
    /\ parses = 0
    /\ openaiClient = NoClient
    /\ serviceInstance = NoService
    /\ constructed = [clients |-> 0, services |-> 0]
    /\ IdleCall
    /\ IdleLoop
    /\ IdleCalls

\* process.env is written (dotenv.config(), the host, a test)
SetEnv(e) ==
    /\ pc = "module"
    /\ e # env
    /\ env' = e
    /\ UNCHANGED <<pureVars, pc, configInstance, parses, openaiClient, serviceInstance,
                   constructed, callVars, loopVars, concVars>>

\* what the caller of config() sees: the environment at the call and whether an
\* instance was cached
CallSite == [env |-> env, cached |-> configInstance # NoConfig]

\* a call of one of the exported functions: `run` is its result and the module
\* state it leaves
Call(name, run) ==
    /\ pc = "module"
    /\ WithinBounds(run.state)
    /\ arg' = CallSite
    /\ fn' = name
    /\ ret' = run.result
    /\ SetModuleState(run.state)
    /\ UNCHANGED <<pc, callVars, loopVars, concVars>>

CallConfig == \E run \in {RunConfig(ModuleState)} : Call("config", run)

CallCreateOpenAIClient ==
    \E run \in {RunCreateOpenAIClient(ModuleState)} : Call("createOpenAIClient", run)

CallGetOpenAIClient ==
    \E run \in {getOpenAIClient(ModuleState)} : Call("getOpenAIClient", run)

CallGetParaphraseService ==
    \E run \in {getParaphraseService(ModuleState)} : Call("getParaphraseService", run)

NextConfig ==
    \/ \E e \in Environments : SetEnv(e)
    \/ CallConfig
    \/ CallCreateOpenAIClient
    \/ CallGetOpenAIClient
    \/ CallGetParaphraseService

SpecConfig == InitConfig /\ [][NextConfig]_vars

----------------------------------------------------------------------------
(* Properties of the validator *)

InBounds(s) == Len(s) >= MIN_DESCRIPTION_LENGTH /\ Len(s) <= MAX_DESCRIPTION_LENGTH

IsValidationError(r) ==
    ~r.ok /\ IsAppError(r.error) /\ r.error.type = "VALIDATION_ERROR"

\* The text a reader of "remove < and >, turn backslash-n into a newline" expects,
\* computed in one left-to-right pass over the raw input: an angle bracket is
\* skipped; a backslash whose next kept character is n yields a newline.
IsSpecial(c) == c \in {"<", ">", "\\"}

RECURSIVE ExpectedClean(_)
ExpectedClean(s) ==
    IF ~\E i \in 1..Len(s) : IsSpecial(s[i]) THEN s
    ELSE
      LET i == CHOOSE x \in 1..Len(s) :
                   IsSpecial(s[x]) /\ \A j \in 1..(x - 1) : ~IsSpecial(s[j])
          before == SubSeq(s, 1, i - 1)
          after == SubSeq(s, i + 1, Len(s))
          kept == {x \in 1..Len(after) : after[x] \notin {"<", ">"}}
          k == CHOOSE x \in kept : \A j \in 1..(x - 1) : j \notin kept
      IN  IF s[i] # "\\" THEN before \o ExpectedClean(after)
          ELSE IF kept # {} /\ after[k] = "n"
               THEN before \o <<"\n">> \o ExpectedClean(SubSeq(after, k + 1, Len(after)))
               ELSE before \o <<"\\">> \o ExpectedClean(after)

ExpectedSanitized(s) == Trim(ExpectedClean(s))

\* C3 (as claimed): validateDescription fails with VALIDATION_ERROR exactly when the
\* trimmed length of its argument is below 10 or above 5000, and otherwise returns
\* the trimmed argument.
C3_FailsExactlyOnTrimmedLength ==
    fn = "validateDescription" =>
        IF InBounds(Trim(arg)) THEN ret.ok /\ ret.value = Trim(arg)
        ELSE IsValidationError(ret)

\* C4 (as claimed): every description whose trimmed length is in [10, 5000] passes
\* the Validator.
C4_TrimmedLengthInBoundsSucceeds ==
    (fn = "Validator" /\ InBounds(Trim(arg))) =>
        ret.ok /\ ret.value = ExpectedSanitized(arg)

\* C4 (amended): the Validator succeeds exactly when the sanitized text has a length
\* in [10, 5000] and then returns the input with angle brackets removed, backslash-n
\* turned into newlines and surrounding whitespace removed; otherwise it fails with
\* VALIDATION_ERROR.
C4_ValidatorReturnsSanitized ==
    fn = "Validator" =>
        LET expected == ExpectedSanitized(arg)
        IN  IF InBounds(expected) THEN ret.ok /\ ret.value = expected
            ELSE IsValidationError(ret)

\* C4 witness: an accepted description of exactly the minimum length whose raw
\* form held an angle bracket and an escaped newline that ended up inside the text.
C4_Witness ==
    /\ fn = "Validator" /\ ret.ok
    /\ Len(ret.value) = MIN_DESCRIPTION_LENGTH
    /\ \E i \in 1..Len(arg) : arg[i] = ">"
    /\ \E i \in 1..Len(arg) : arg[i] = "\\"
    /\ \E i \in 1..Len(ret.value) : ret.value[i] = "\n"

----------------------------------------------------------------------------
(* Properties of the service and of the error classifier *)

Ended == pc \in {"returned", "threw"}

ThrewType(t) == pc = "threw" /\ ~outcome.ok /\ IsAppError(outcome.error) /\ outcome.error.type = t

\* C1: whatever the request was, an upstream API error with status 401 ends the call
\* with API_KEY_ERROR, one with status 429 with RATE_LIMIT_ERROR, and a
\* connection-refused error (an Error that is no API error and whose message holds
\* ECONNREFUSED) with NETWORK_ERROR.
C1_ClassifiesByStatusAndSignature ==
    (Ended /\ answer.kind \in {"APIError", "Error"}) =>
        /\ (answer.kind = "APIError" /\ answer.status = 401) => ThrewType("API_KEY_ERROR")
        /\ (answer.kind = "APIError" /\ answer.status = 429) => ThrewType("RATE_LIMIT_ERROR")
        /\ (answer.kind = "Error" /\ Includes(answer.message, "ECONNREFUSED"))
               => ThrewType("NETWORK_ERROR")

\* C1 witness: a 401 whose message also carries a connection signature, for a request
\* with an over-long description, ended as API_KEY_ERROR.
C1_Witness ==
    /\ ThrewType("API_KEY_ERROR")
    /\ answer.kind = "APIError" /\ answer.status = 401
    /\ Includes(answer.message, "ECONNREFUSED")
    /\ Len(request.description) > MAX_DESCRIPTION_LENGTH

\* the first candidate of a completion carries no usable text
NoUsableText(completion) ==
    \/ completion.choices = <<>>
    \/ ~completion.choices[1].present
    \/ \A i \in 1..Len(completion.choices[1].text) :
           IsWhitespace(completion.choices[1].text[i])

\* C2 (as claimed): a completion without usable text makes paraphrase fail with
\* API_ERROR, and no response with an empty paraphrased text is returned.
C2_NoContentIsApiError ==
    /\ (Ended /\ answer.kind = "completion" /\ NoUsableText(answer)) => ThrewType("API_ERROR")
    /\ (pc = "returned") => outcome.value.paraphrased # <<>>

\* C2 (amended): a completion without usable text makes paraphrase fail with
\* UNKNOWN_ERROR, whose details is the "No paraphrase generated" error, and no
\* response with an empty paraphrased text is returned.
C2_NoContentIsUnknownError ==
    /\ (Ended /\ answer.kind = "completion" /\ NoUsableText(answer)) =>
           /\ ThrewType("UNKNOWN_ERROR")
           /\ outcome.error.message = UnknownMessage
           /\ outcome.error.details = NoContentError
    /\ (pc = "returned") => outcome.value.paraphrased # <<>>

\* C2 witness: the call succeeded with a whitespace-only first candidate and a
\* second candidate that has text, and paraphrase threw.
C2_Witness ==
    /\ pc = "threw"
    /\ answer.kind = "completion"
    /\ Len(answer.choices) = 2
    /\ answer.choices[1].present /\ answer.choices[1].text # <<>>
    /\ NoUsableText(answer)

\* C5 (as claimed): a request whose description has a trimmed length outside
\* [10, 5000] fails with VALIDATION_ERROR and no completion request is issued.
C5_InvalidDescriptionNeverSent ==
    (pc # "idle" /\ ~InBounds(Trim(request.description))) =>
        /\ sent = <<>>
        /\ ThrewType("VALIDATION_ERROR")

\* C5 (amended): paraphrase does not validate the description: for every request,
\* whatever the length of its description, it issues the completion request with
\* the description as the user message, and it never fails with VALIDATION_ERROR.
C5_SendsWithoutValidating ==
    pc # "idle" =>
        /\ Len(sent) = 1
        /\ sent[1].messages[2].role = "user"
        /\ sent[1].messages[2].content = request.description
        /\ ~ThrewType("VALIDATION_ERROR")

\* C5 witness: a request with a 9-character description was sent and answered.
C5_Witness ==
    /\ pc = "returned"
    /\ Len(request.description) = MIN_DESCRIPTION_LENGTH - 1
    /\ Len(sent) = 1

\* C7: a completion whose first candidate has text makes paraphrase return a response
\* with original = request.description, paraphrased = that text trimmed, and
\* tokensUsed = the reported total (absent when no usage is reported).
C7_ResponseFields ==
    (Ended /\ answer.kind = "completion" /\ ~NoUsableText(answer)) =>
        /\ pc = "returned" /\ outcome.ok
        /\ outcome.value.original = request.description
        /\ outcome.value.paraphrased = Trim(answer.choices[1].text)
        /\ outcome.value.tokensUsed.present = answer.usage.present
        /\ answer.usage.present =>
               outcome.value.tokensUsed.value = answer.usage.total_tokens

\* C7 witness: padded content, two candidates, a reported usage of 0 tokens and a
\* description with surrounding whitespace.
C7_Witness ==
    /\ pc = "returned"
    /\ Len(answer.choices) = 2
    /\ answer.choices[1].text # Trim(answer.choices[1].text)
    /\ answer.usage.present /\ answer.usage.total_tokens = 0
    /\ request.description # Trim(request.description)

\* the error the call failed on: the rejection of the await, or the error thrown
\* for a completion without text
UnderlyingError ==
    IF answer.kind = "completion" THEN NoContentError ELSE answer

\* C8: a call that ended either returned a response or threw one AppError that
\* carries one ErrorType and the underlying error as details.
C8_ResponseOrTaggedError ==
    Ended =>
        IF pc = "returned"
        THEN /\ outcome.ok
             /\ DOMAIN outcome.value = {"original", "paraphrased", "tokensUsed"}
             /\ raised = NoError
        ELSE /\ ~outcome.ok
             /\ IsAppError(outcome.error)
             /\ outcome.error.type \in ErrorType
             /\ outcome.error.details = UnderlyingError
             /\ raised = UnderlyingError

\* C8 witness: a thrown value that is no Error ended the call as a tagged error.
C8_Witness ==
    /\ pc = "threw"
    /\ answer.kind = "value"
    /\ IsAppError(outcome.error)

----------------------------------------------------------------------------
(* Properties of the interactive session *)

\* C6: in every iteration, a completion request has been issued only if
\* promptForDescription returned a validated description in that iteration (the
\* request then carries exactly that description, whose length is in [10, 5000]);
\* in an iteration whose validation failed no request is issued.
C6_RequestOnlyAfterValidation ==
    /\ sent # <<>> =>
           /\ prompted.done /\ prompted.result.ok
           /\ Len(sent) = 1
           /\ sent[1].messages[2].content = ExpectedSanitized(Join(lines))
           /\ InBounds(sent[1].messages[2].content)
    /\ (prompted.done /\ ~prompted.result.ok) =>
           /\ sent = <<>>
           /\ pc \in {"catch", "loop"}
           /\ IsAppError(caught) /\ caught.type = "VALIDATION_ERROR"

\* C6 witness: in the second iteration a two-line description that sanitization
\* changed was validated and its completion request is in flight.
C6_Witness ==
    /\ pc = "awaitParaphrase"
    /\ iter = 2
    /\ Len(lines) = 2
    /\ Len(sent) = 1
    /\ prompted.description # prompted.result.value

IsApiKeyError(e) == IsAppError(e) /\ e.type = "API_KEY_ERROR"

\* C10: the catch clause of the loop ends the session if and only if the caught
\* error is an AppError of type API_KEY_ERROR; after any other error the loop goes
\* on (continueRunning still true) and its next step is the description prompt; the
\* session is aborted nowhere else.
C10_AbortsOnlyOnApiKeyError ==
    [][ /\ pc = "catch" =>
              /\ (pc' = "exited") <=> IsApiKeyError(caught)
              /\ (pc' # "exited") => (pc' = "loop" /\ continueRunning' /\ exitCode' = -1)
        /\ (pc = "loop" /\ caught # NoError) => pc' = "promptForDescription"
        /\ (pc' = "exited" /\ pc # "exited") => (pc = "catch" /\ exitCode' = 1)
      ]_vars

\* C10 witness: the loop is back at its top, flag still set, after the first
\* iteration caught a rate-limit error and handleError reported it.
C10_Witness ==
    /\ pc = "loop"
    /\ iter = 1
    /\ continueRunning
    /\ IsAppError(caught) /\ caught.type = "RATE_LIMIT_ERROR"
    /\ shown[Len(shown)] = "error: rate limit"

----------------------------------------------------------------------------
(* Properties of the configuration and client singletons *)

\* a call that had to load the configuration while the credential was missing or empty
LoadedWithoutKey ==
    /\ fn \in {"config", "createOpenAIClient", "getOpenAIClient", "getParaphraseService"}
    /\ ~arg.cached
    /\ arg.env.OPENAI_API_KEY \in {Unset, ""}

\* C11 (as claimed): when OPENAI_API_KEY is unset or empty, loading the configuration
\* or creating the client fails with an AppError of type API_KEY_ERROR.
C11_MissingKeyIsApiKeyError ==
    LoadedWithoutKey =>
        ~ret.ok /\ IsAppError(ret.error) /\ ret.error.type = "API_KEY_ERROR"

\* C20: once configInstance is set it never changes and the environment is not parsed
\* again, whatever happens to process.env; a config() call then returns that very
\* object.
C20_ConfigLoadedOnce ==
    [][ configInstance # NoConfig =>
            /\ configInstance' = configInstance
            /\ parses' = parses
            /\ fn' = "config" => ret' = Return(configInstance)
      ]_vars

\* C20 witness: config() returned the cached object although the credential had been
\* removed from the environment and another model had been set since it was loaded.
C20_Witness ==
    /\ fn = "config" /\ ret.ok
    /\ arg.cached
    /\ arg.env.OPENAI_API_KEY = Unset
    /\ arg.env.OPENAI_MODEL = "gpt-4o"
    /\ ret.value.openai.model = "gpt-5-nano"
    /\ ret.value = configInstance

----------------------------------------------------------------------------
(* Properties of the similarity check *)

SameIgnoringCase(a, b) == toLowerCase(a) = toLowerCase(b)

\* the whitespace-separated tokens of the lower-cased text
WordsOf(text) == SplitWhitespace(toLowerCase(text))

\* how many positions of the word list `of` hold a word that occurs in `other`
CountIn(of, other) ==
    Cardinality({i \in 1..Len(of) : \E j \in 1..Len(other) : other[j] = of[i]})

NoRepeats(ws) == \A i, j \in 1..Len(ws) : ws[i] = ws[j] => i = j

\* C12 (as claimed): isSignificantlyDifferent returns true whenever the overlap is
\* below 0.7 and also whenever the texts are not identical after lower-casing, and
\* false for texts that are identical after lower-casing.
C12_TrueWheneverNotIdentical ==
    fn = "isSignificantlyDifferent" =>
        /\ 10 * similarity(arg[1], arg[2]).common < 7 * similarity(arg[1], arg[2]).longest
               => ret.value
        /\ ~SameIgnoringCase(arg[1], arg[2]) => ret.value
        /\ SameIgnoringCase(arg[1], arg[2]) => ~ret.value

\* C12 (amended): isSignificantlyDifferent returns true exactly when the overlap is
\* below 0.7; texts that are identical after lower-casing have overlap 1 and give
\* false, and so do texts that differ but whose overlap is 0.7 or more. "A red
\* shirt" against itself is false, "A red large cotton shirt" against "Blue denim
\* pants" is true.
C12_TrueExactlyBelowThreshold ==
    fn = "isSignificantlyDifferent" =>
        /\ ret.value <=>
               10 * similarity(arg[1], arg[2]).common < 7 * similarity(arg[1], arg[2]).longest
        /\ SameIgnoringCase(arg[1], arg[2]) =>
               /\ ~ret.value
               /\ similarity(arg[1], arg[2]).common = similarity(arg[1], arg[2]).longest
        /\ arg = <<RedShirt, RedShirt>> => ~ret.value
        /\ arg = <<RedLargeCottonShirt, BlueDenimPants>> => ret.value

\* C12 witness: two texts that differ after lower-casing, with the same words in
\* another order, were found not significantly different.
C12_Witness ==
    /\ fn = "isSignificantlyDifferent"
    /\ ~SameIgnoringCase(arg[1], arg[2])
    /\ Len(WordsOf(arg[1])) = 2
    /\ ~ret.value

\* C13 (as claimed): the overlap is the number of words of the paraphrase that occur
\* in the original, divided by the larger word count; so for texts that differ
\* after lower-casing the result is true exactly when that fraction is below 0.7.
C13_CountsWordsOfParaphrase ==
    (fn = "isSignificantlyDifferent" /\ ~SameIgnoringCase(arg[1], arg[2])) =>
        (ret.value <=>
            10 * CountIn(WordsOf(arg[2]), WordsOf(arg[1]))
                < 7 * Larger(Len(WordsOf(arg[1])), Len(WordsOf(arg[2]))))

\* C13 (amended): the overlap is the number of words of the original (each
\* occurrence counted) that occur in the paraphrase, divided by the larger word
\* count; it equals the count taken over the paraphrase's words when neither text
\* repeats a word.
C13_CountsWordsOfOriginal ==
    fn = "isSignificantlyDifferent" =>
        LET originalWords == WordsOf(arg[1])
            paraphrasedWords == WordsOf(arg[2])
        IN  /\ similarity(arg[1], arg[2]).common = CountIn(originalWords, paraphrasedWords)
            /\ similarity(arg[1], arg[2]).longest
                   = Larger(Len(originalWords), Len(paraphrasedWords))
            /\ (NoRepeats(originalWords) /\ NoRepeats(paraphrasedWords)) =>
                   similarity(arg[1], arg[2]).common
                       = CountIn(paraphrasedWords, originalWords)
            /\ ~SameIgnoringCase(arg[1], arg[2]) =>
                   (ret.value <=>
                       10 * CountIn(originalWords, paraphrasedWords)
                           < 7 * Larger(Len(originalWords), Len(paraphrasedWords)))

\* C13 witness: the original repeats a word, so that counting over the original
\* (overlap 1, not different) and over the paraphrase (overlap 1/3) disagree.
C13_Witness ==
    /\ fn = "isSignificantlyDifferent"
    /\ ~NoRepeats(WordsOf(arg[1]))
    /\ CountIn(WordsOf(arg[1]), WordsOf(arg[2])) = 3
    /\ CountIn(WordsOf(arg[2]), WordsOf(arg[1])) = 1
    /\ ~ret.value

----------------------------------------------------------------------------
(* Properties of the session around the similarity check *)

\* C14: when the awaited paraphrase call succeeds, the session prints the result,
\* adds the warning exactly when isSignificantlyDifferent is false, and in both
\* cases goes to the continue prompt with nothing caught and the loop flag as it
\* was; the continue prompt then leads back to the top of the loop with the flag
\* set by the user's answer alone.
C14_SimilarityIsAdvisory ==
    [][ /\ (pc = "awaitParaphrase" /\ outcome'.ok) =>
              LET different == isSignificantlyDifferent(outcome'.value.original,
                                                        outcome'.value.paraphrased)
                  printed == SubSeq(shown', Len(shown) + 1, Len(shown'))
                  warned == printed # <<>> /\ printed[Len(printed)] = "error: too similar"
              IN  /\ pc' = "promptToContinue"
                  /\ caught' = NoError
                  /\ continueRunning' = continueRunning
                  /\ exitCode' = -1
                  /\ SubSeq(shown', 1, Len(shown)) = shown
                  /\ printed[1] = "result"
                  /\ warned <=> ~different
        /\ pc = "promptToContinue" =>
              /\ pc' = "loop"
              /\ caught' = NoError
              /\ exitCode' = -1
              /\ outcome' = outcome
      ]_vars

\* C14 witness: in the second iteration the paraphrase came back equal to the
\* description, the warning was printed and the session is at the continue prompt.
C14_Witness ==
    /\ pc = "promptToContinue"
    /\ outcome.ok
    /\ outcome.value.original = outcome.value.paraphrased
    /\ shown[Len(shown)] = "error: too similar"
    /\ iter = 2

----------------------------------------------------------------------------
(* Properties of the order of the error classification *)

HasConnectionSignature(e) ==
    /\ e.kind \in {"APIError", "Error"}
    /\ (Includes(e.message, "ECONNREFUSED") \/ Includes(e.message, "ETIMEDOUT"))

\* C15: a call that failed on an API error whose status is neither 401 nor 429 threw
\* API_ERROR with the upstream message in its message, also when that message
\* carries ECONNREFUSED or ETIMEDOUT; a call that failed on anything that is neither
\* an API error nor an Error with such a signature threw UNKNOWN_ERROR.
C15_ApiErrorBeforeSignature ==
    pc = "threw" =>
        /\ (raised.kind = "APIError" /\ raised.status \notin {401, 429}) =>
               /\ ThrewType("API_ERROR")
               /\ outcome.error.message = <<"OpenAI API error: ">> \o raised.message
               /\ \A i \in 1..Len(raised.message) :
                      Includes(outcome.error.message, raised.message[i])
        /\ (raised.kind # "APIError" /\ ~HasConnectionSignature(raised)) =>
               ThrewType("UNKNOWN_ERROR")

\* C15 witness: an API error with status 500 whose message holds ETIMEDOUT ended the
\* call as API_ERROR.
C15_Witness ==
    /\ ThrewType("API_ERROR")
    /\ answer.kind = "APIError" /\ answer.status = 500
    /\ Includes(answer.message, "ETIMEDOUT")
    /\ Includes(outcome.error.message, "ETIMEDOUT")

----------------------------------------------------------------------------
(* Properties of the prompt builders *)

PromptBuilt == fn \in {"buildMessages", "buildMessagesForLength"}

SystemMessage(k) == ret.value[k][1]
UserMessage(k) == ret.value[k][2]

\* the text ends with the description, and what precedes it is nothing or the label
VerbatimAfterLabel(text, description) ==
    /\ Len(text) >= Len(description)
    /\ SubSeq(text, Len(text) - Len(description) + 1, Len(text)) = description
    /\ SubSeq(text, 1, Len(text) - Len(description)) \in {<<>>, <<UserPromptLabel>>}

\* C16: for any two requests, equal requests give equal message pairs, requests with
\* the same targetLength give the same system message whatever their descriptions,
\* and each user message is the request's description verbatim, at most preceded by
\* the fixed label.
C16_SystemPromptDependsOnHintOnly ==
    PromptBuilt =>
        /\ arg[1] = arg[2] => ret.value[1] = ret.value[2]
        /\ arg[1].targetLength = arg[2].targetLength =>
               SystemMessage(1).content = SystemMessage(2).content
        /\ \A k \in 1..2 :
               /\ SystemMessage(k).role = "system"
               /\ UserMessage(k).role = "user"
               /\ VerbatimAfterLabel(UserMessage(k).content, arg[k].description)

\* C16 witness: two requests with the hint short, one description with surrounding
\* whitespace and one over-long, got the same system message and different user
\* messages from the builder that uses the hint.
C16_Witness ==
    /\ fn = "buildMessagesForLength"
    /\ arg[1].targetLength = "short" /\ arg[2].targetLength = "short"
    /\ arg[1].description # Trim(arg[1].description)
    /\ Len(arg[2].description) > MAX_DESCRIPTION_LENGTH
    /\ SystemMessage(1).content = SystemMessage(2).content
    /\ UserMessage(1).content # UserMessage(2).content

\* C17 (as claimed): the system message built without a hint equals the one built
\* for medium, and the messages for short and long each differ from it by their
\* own clause.
C17_NoHintIsMedium ==
    fn = "buildMessagesForLength" =>
        /\ (arg[1].targetLength = "none" /\ arg[2].targetLength = "medium") =>
               SystemMessage(1).content = SystemMessage(2).content
        /\ (arg[1].targetLength = "short" /\ arg[2].targetLength = "long") =>
               /\ SystemMessage(1).content # SystemMessage(2).content
               /\ Includes(SystemMessage(1).content, ShortClause)
               /\ Includes(SystemMessage(2).content, LongClause)

----------------------------------------------------------------------------
(* Properties of calls on the shared service instance *)

\* C18: every call that was started has issued exactly one completion request, the
\* client has received nothing else, each request asks for one candidate and
\* carries the call's description; this stays so after the call has failed, a
\* rate-limit failure included.
C18_OneRequestPerCall ==
    /\ Len(issued) = Len(calls)
    /\ \A c \in 1..Len(calls) :
           /\ Cardinality({k \in 1..Len(issued) : issued[k].call = c}) = 1
           /\ issued[c].call = c
           /\ issued[c].request.n = 1
           /\ issued[c].request.messages[2].content = calls[c].request.description

\* C18 witness: two calls have ended, one of them on a rate-limit error.
C18_Witness ==
    /\ Len(calls) = 2
    /\ \A c \in 1..2 : calls[c].pc # "awaiting"
    /\ \E c \in 1..2 :
           /\ calls[c].pc = "threw"
           /\ calls[c].outcome.error.type = "RATE_LIMIT_ERROR"
    /\ Len(issued) = 2

\* what call c must end with, given its own request and its own answer
OwnOutcome(call) ==
    IF call.answer.kind = "completion" /\ ~NoUsableText(call.answer)
    THEN /\ call.pc = "returned" /\ call.outcome.ok
         /\ call.outcome.value.original = call.request.description
         /\ call.outcome.value.paraphrased = Trim(call.answer.choices[1].text)
         /\ call.outcome.value.tokensUsed.present = call.answer.usage.present
         /\ call.answer.usage.present =>
                call.outcome.value.tokensUsed.value = call.answer.usage.total_tokens
    ELSE /\ call.pc = "threw" /\ ~call.outcome.ok
         /\ IsAppError(call.outcome.error)
         /\ call.outcome.error.details =
                (IF call.answer.kind = "completion" THEN NoContentError ELSE call.answer)

\* C19: in every step, whatever the order in which calls start and settle, a call
\* that has ended ended with the response or error that follows from its own
\* request and its own answer, and a step that starts or settles one call leaves
\* every other call as it was.
C19_CallsDoNotInterfere ==
    [][ /\ \A c \in 1..Len(calls') : calls'[c].pc # "awaiting" => OwnOutcome(calls'[c])
        /\ \A c \in 1..Len(calls) :
               \/ calls'[c] = calls[c]
               \/ /\ calls[c].pc = "awaiting"
                  /\ \A d \in 1..Len(calls) : d # c => calls'[d] = calls[d]
      ]_vars

\* C19 witness: the second call was started while the first was awaiting and failed
\* first; the first then returned its own description and its own completion.
C19_Witness ==
    /\ Len(calls) = 2
    /\ calls[2].order = 1 /\ calls[2].pc = "threw"
    /\ calls[1].order = 2 /\ calls[1].pc = "returned"
    /\ calls[1].request.description # calls[2].request.description
    /\ calls[1].outcome.value.original = calls[1].request.description

----------------------------------------------------------------------------
(* Properties of the validation of the environment *)

\* the variables of environment e that violate the schema
ViolatedVariables(e) ==
    (IF e.OPENAI_API_KEY \in {Unset, ""} THEN {"OPENAI_API_KEY"} ELSE {})
    \cup (IF e.LOG_LEVEL \notin (LogLevels \cup {Unset}) THEN {"LOG_LEVEL"} ELSE {})

\* a call that had to load the configuration
Loaded ==
    /\ fn \in {"config", "createOpenAIClient", "getOpenAIClient", "getParaphraseService"}
    /\ ~arg.cached

\* C21: a call that loads the configuration fails exactly when some variable of the
\* environment violates the schema, and then with one AppError of type
\* VALIDATION_ERROR whose message names every violated variable once, each with its
\* constraint, and names no other variable.
C21_MessageListsEveryViolation ==
    Loaded =>
        LET violated == ViolatedVariables(arg.env)
        IN  /\ ret.ok <=> violated = {}
            /\ ~ret.ok =>
                   /\ IsAppError(ret.error)
                   /\ ret.error.type = "VALIDATION_ERROR"
                   /\ ret.error.message[1] = "Environment validation failed: "
                   /\ \A v \in {"OPENAI_API_KEY", "OPENAI_MODEL", "LOG_LEVEL"} :
                          Cardinality({i \in 1..Len(ret.error.message) :
                                         ret.error.message[i] = v})
                              = (IF v \in violated THEN 1 ELSE 0)
                   /\ Len(ret.error.details.issues) = Cardinality(violated)

\* C21 witness: the credential was missing and the log level was not one of the
\* levels; the message names both.
C21_Witness ==
    /\ Loaded /\ ~ret.ok
    /\ arg.env.OPENAI_API_KEY = Unset
    /\ arg.env.LOG_LEVEL = "verbose"
    /\ Includes(ret.error.message, "OPENAI_API_KEY")
    /\ Includes(ret.error.message, "LOG_LEVEL")

----------------------------------------------------------------------------
(* Properties of the reading of the description                                  *)

\* the non-empty lines of the entered lines h, in the order they were entered
NonEmptyLines(h) == SelectSeq(h, LAMBDA l : l # <<>>)

\* h holds two empty lines in a row
TwoEmptyInARow(h) == \E i \in 1..(Len(h) - 1) : h[i] = <<>> /\ h[i + 1] = <<>>

\* the number of empty lines at the end of h
RECURSIVE TrailingEmptyLines(_)
TrailingEmptyLines(h) ==
    IF h = <<>> \/ h[Len(h)] # <<>> THEN 0
    ELSE 1 + TrailingEmptyLines(SubSeq(h, 1, Len(h) - 1))

\* the lines ls with one newline between neighbours
RECURSIVE NewlineJoined(_)
NewlineJoined(ls) ==
    IF ls = <<>> THEN <<>>
    ELSE IF Len(ls) = 1 THEN ls[1]
    ELSE NewlineJoined(SubSeq(ls, 1, Len(ls) - 1)) \o <<"\n">> \o ls[Len(ls)]

\* C22: promptForDescription reads on as long as no two empty lines were entered in
\* a row (only a failing read ends it earlier, by an error), a non-empty line sets
\* the count of empty lines back to zero, and when the second empty line in a row
\* arrives the description handed to sanitization is the non-empty lines, in the
\* order entered, joined by single newlines.
C22_ReadsUntilTwoEmptyLines ==
    /\ pc = "promptForDescription" =>
          /\ ~prompted.done
          /\ ~TwoEmptyInARow(typed)
          /\ emptyLineCount = TrailingEmptyLines(typed)
          /\ lines = NonEmptyLines(typed)
    /\ prompted.done =>
          /\ Len(typed) >= 2
          /\ TrailingEmptyLines(typed) = 2
          /\ ~TwoEmptyInARow(SubSeq(typed, 1, Len(typed) - 1))
          /\ prompted.description = NewlineJoined(NonEmptyLines(typed))
    /\ (typed # <<>> /\ ~TwoEmptyInARow(typed) /\ pc # "promptForDescription") =>
          /\ ~prompted.done
          /\ caught = TtyError

\* an empty line, then a non-empty one, then the two empty lines that end the input
C22_Witness ==
    /\ prompted.done
    /\ Len(typed) = 5
    /\ typed[1] # <<>> /\ typed[2] = <<>> /\ typed[3] # <<>>
    /\ prompted.description = typed[1] \o <<"\n">> \o typed[3]

----------------------------------------------------------------------------
(* Properties of startup                                                         *)

\* the session has reached its interactive loop
InLoop ==
    pc \in {"loop", "promptForDescription", "promptForTargetLength", "awaitParaphrase",
            "promptToContinue", "catch", "exited", "done"}

\* C23: a description prompt is shown, or a completion request issued, only after
\* the configuration was validated successfully (the environment satisfies the
\* schema and the validated configuration is loaded); in an environment that
\* violates the schema the process ends at startup with exit status 1 and never
\* enters the interactive loop.
C23_NothingBeforeValidConfig ==
    /\ (InLoop \/ iter > 0 \/ sent # <<>> \/ Includes(shown, "prompt")
           \/ Includes(shown, "header")) =>
          /\ ViolatedVariables(env) = {}
          /\ configInstance # NoConfig
          /\ parses >= 1
    /\ (ViolatedVariables(env) # {} /\ pc # "start") =>
          /\ pc = "failed"
          /\ exitCode = 1
          /\ configInstance = NoConfig
          /\ iter = 0 /\ sent = <<>>
          /\ ~Includes(shown, "prompt") /\ ~Includes(shown, "header")

\* started with an invalid LOG_LEVEL and a usable key: the process has ended
C23_Witness ==
    /\ pc = "failed" /\ exitCode = 1
    /\ env.OPENAI_API_KEY = "sk-test"
    /\ env.LOG_LEVEL = "verbose"

----------------------------------------------------------------------------
(* Properties of the way the loop goes on and ends                               *)

\* C24: once an iteration has caught a non-fatal error the question whether to
\* continue is not asked in it and the goodbye is not reached from it: the loop is
\* back at its top with the flag still set and its next step is the description
\* prompt of a new iteration. The question is asked only after a paraphrase that
\* succeeded, and the goodbye is shown only when the user declined in such an
\* iteration.
C24_ErrorSkipsContinueQuestion ==
    [][ /\ caught' # NoError =>
              /\ pc' \in {"catch", "loop", "exited"}
              /\ continueRunning'
        /\ (pc = "loop" /\ caught # NoError) =>
              /\ pc' = "promptForDescription"
              /\ iter' = iter + 1
        /\ pc' = "promptToContinue" => outcome'.ok
        /\ (pc' = "loop" /\ ~continueRunning') => (pc = "promptToContinue" /\ outcome.ok)
        /\ (pc' = "done" \/ Includes(shown', "goodbye")) =>
              /\ pc = "loop" /\ pc' = "done"
              /\ ~continueRunning
              /\ outcome.ok /\ caught = NoError
      ]_vars

\* the first iteration failed on an unreadable terminal; the loop is at its top
\* again and nothing was asked
C24_Witness ==
    /\ pc = "loop"
    /\ iter = 1
    /\ caught = TtyError
    /\ continueRunning
    /\ shown[Len(shown)] = "error: unexpected"

\* C25: when the error caught in an iteration is an ApiKeyError the next step ends
\* the process with exit status 1, without a goodbye, without a new iteration and
\* without a further completion request; nothing happens after that.
C25_ApiKeyErrorEndsSession ==
    [][ /\ IsApiKeyError(caught') =>
              /\ pc' \in {"catch", "exited"}
              /\ ~Includes(shown', "goodbye")
        /\ (pc = "catch" /\ IsApiKeyError(caught)) =>
              /\ pc' = "exited"
              /\ exitCode' = 1
              /\ iter' = iter /\ sent' = sent
              /\ shown'[Len(shown')] = "fatal"
        /\ pc # "exited"
      ]_vars

\* the second iteration was answered with a rejected credential: the process has
\* ended with status 1 after the fatal-error report
C25_Witness ==
    /\ pc = "exited"
    /\ exitCode = 1
    /\ iter = 2
    /\ IsApiKeyError(caught)
    /\ Len(sent) = 1
    /\ shown[Len(shown)] = "fatal"

----------------------------------------------------------------------------
(* Properties of sanitizeInput as a function                                     *)

\* text t holds a backslash directly followed by the letter n
HasEscapedNewline(t) == \E i \in 1..(Len(t) - 1) : t[i] = "\\" /\ t[i + 1] = "n"

\* C26: the result of sanitizeInput is a fixed point of sanitizeInput, holds no
\* '<' and no '>', holds no backslash directly followed by n, and neither begins
\* nor ends with whitespace.
C26_SanitizeIsIdempotent ==
    fn = "sanitizeInput" =>
        LET clean == ret.value
        IN  /\ ret.ok
            /\ sanitizeInput(clean) = clean
            /\ \A i \in 1..Len(clean) : clean[i] \notin {"<", ">"}
            /\ ~HasEscapedNewline(clean)
            /\ clean # <<>> => (~IsWhitespace(clean[1]) /\ ~IsWhitespace(clean[Len(clean)]))

\* a backslash and an n that only the removal of '<' brings together, and a
\* trailing blank: the result is the bare text
C26_Witness ==
    /\ fn = "sanitizeInput"
    /\ arg = <<"\\", "<", "n">> \o Rep("a", MIN_DESCRIPTION_LENGTH) \o <<" ">>
    /\ ret.value = Rep("a", MIN_DESCRIPTION_LENGTH)

----------------------------------------------------------------------------
(* Properties of handleOpenAIError as a function                                *)

\* C27: whatever value handleOpenAIError is given, the call ends by an exception,
\* the exception is an AppError, and its type is API_KEY_ERROR, RATE_LIMIT_ERROR,
\* API_ERROR, NETWORK_ERROR or UNKNOWN_ERROR, never VALIDATION_ERROR (also when the
\* value given is itself an AppError of that type).
C27_AlwaysThrowsClassifiedAppError ==
    fn = "handleOpenAIError" =>
        /\ ~ret.ok
        /\ IsAppError(ret.error)
        /\ ret.error.type \in {"API_KEY_ERROR", "RATE_LIMIT_ERROR", "API_ERROR",
                                "NETWORK_ERROR", "UNKNOWN_ERROR"}
        /\ ret.error.type # "VALIDATION_ERROR"
        /\ ret.error.details = arg

\* given an AppError of type VALIDATION_ERROR, the call threw an UNKNOWN_ERROR
\* that wraps it
C27_Witness ==
    /\ fn = "handleOpenAIError"
    /\ IsAppError(arg) /\ arg.type = "VALIDATION_ERROR"
    /\ ~ret.ok /\ ret.error.type = "UNKNOWN_ERROR"

----------------------------------------------------------------------------
(* Properties of the text in a returned response                                *)

\* the first candidate of the answer has content, all of it whitespace
FirstCandidateIsBlank ==
    /\ answer.kind = "completion"
    /\ answer.choices # <<>>
    /\ answer.choices[1].present
    /\ answer.choices[1].text # <<>>
    /\ \A i \in 1..Len(answer.choices[1].text) : IsWhitespace(answer.choices[1].text[i])

\* C28: the paraphrased text of every response paraphrase returns is non-empty and
\* neither begins nor ends with whitespace; when the content of the first candidate
\* is nothing but whitespace the call returns no response: it fails, on the
\* "No paraphrase generated" error.
C28_ParaphrasedIsTrimmedNonEmpty ==
    /\ pc = "returned" =>
          LET text == outcome.value.paraphrased
          IN  /\ outcome.ok
              /\ text # <<>>
              /\ ~IsWhitespace(text[1])
              /\ ~IsWhitespace(text[Len(text)])
    /\ (Ended /\ FirstCandidateIsBlank) =>
          /\ pc = "threw" /\ ~outcome.ok
          /\ outcome.error.details = NoContentError

\* a single candidate with whitespace on both sides of its text was returned
\* without them
C28_Witness ==
    /\ pc = "returned"
    /\ Len(answer.choices) = 1
    /\ answer.choices[1].text = <<" ", "o", "k", "\n">>
    /\ outcome.value.paraphrased = <<"o", "k">>

----------------------------------------------------------------------------
(* Properties of the client and service singletons                              *)

\* the step is a call of the exported function `name` (a write to the environment
\* leaves fn as it was and changes env)
Called(name) == fn' = name /\ env' = env

\* construction can succeed here: the configuration is cached or the environment
\* satisfies the schema
CanConstruct == configInstance # NoConfig \/ ViolatedVariables(env) = {}

\* C29: a cached client and a cached service are never replaced or dropped. A call
\* of getOpenAIClient (getParaphraseService) that finds an instance cached returns
\* that instance and constructs nothing; a call that finds none attempts the
\* construction: if it succeeds, exactly one instance is constructed, cached and
\* returned, and if it raises an error nothing is cached. So each function
\* constructs at most one instance as long as construction succeeds, and a call
\* after a failed one attempts construction again.
C29_SingletonsConstructOnce ==
    [][ /\ openaiClient # NoClient => openaiClient' = openaiClient
        /\ serviceInstance # NoService => serviceInstance' = serviceInstance
        /\ constructed'.services <= 1
        /\ (Called("getOpenAIClient") /\ openaiClient # NoClient) =>
              /\ ret' = Return(openaiClient)
              /\ constructed' = constructed
        /\ (Called("getOpenAIClient") /\ openaiClient = NoClient) =>
              /\ ret'.ok <=> CanConstruct
              /\ ret'.ok => /\ openaiClient' = ret'.value
                            /\ constructed'.clients = constructed.clients + 1
              /\ ~ret'.ok => /\ openaiClient' = NoClient
                             /\ constructed' = constructed
        /\ (Called("getParaphraseService") /\ serviceInstance # NoService) =>
              /\ ret' = Return(serviceInstance)
              /\ constructed' = constructed
        /\ (Called("getParaphraseService") /\ serviceInstance = NoService) =>
              /\ ret'.ok <=> CanConstruct
              /\ ret'.ok => /\ serviceInstance' = ret'.value
                            /\ constructed'.services = constructed.services + 1
                            /\ ret'.value.openaiClient = openaiClient'
                            /\ constructed'.clients =
                                   constructed.clients + (IF openaiClient = NoClient THEN 1 ELSE 0)
              /\ ~ret'.ok => /\ serviceInstance' = NoService
                             /\ openaiClient' = NoClient
                             /\ constructed' = constructed
      ]_vars

\* an earlier attempt failed on an environment that violates the schema; after
\* the environment was corrected this call of getParaphraseService loaded the
\* configuration and constructed the service and its client
C29_Witness ==
    /\ fn = "getParaphraseService"
    /\ ret.ok /\ ret.value = serviceInstance
    /\ ~arg.cached
    /\ parses = 2
    /\ constructed = [clients |-> 1, services |-> 1]
    /\ serviceInstance.openaiClient = openaiClient

====
